---- MODULE Spec2Model ----
(***************************************************************************)
(* The LoRA lab notebook (l5-basic/nlp-l5-basic.ipynb) as a state machine. *)
(*                                                                         *)
(* The state is the in-memory DistilBERT classifier (a table of named      *)
(* linear submodules and the heap of layer objects they refer to), the     *)
(* notebook variable holding the result of extract(), the LoRA adapter     *)
(* object, the number of training runs so far, and a record of the most    *)
(* recent call (arguments, the model as                                     *)
(* it was before the call, and what the call returned or raised).          *)
(*                                                                         *)
(* Every function is modelled by what its body in the notebook does.       *)
(***************************************************************************)
EXTENDS Integers, Sequences, FiniteSets

VARIABLES layers, modules, extracted, adapter, train_runs, last

vars == <<layers, modules, extracted, adapter, train_runs, last>>

(***************************************************************************)
(* Bounds of the model.                                                    *)
(***************************************************************************)
\* Transformer blocks of the scaled-down encoder.
NumBlocks == 2
\* Layers clone_linear may allocate on top of the model's own.
MaxClones == 1
\* Largest entry of a matrix handed to approximate.
MaxEntry == 2
\* Largest rank argument (approximate, LoRA).
MaxRank == 2
\* Largest alpha argument of LoRA.
MaxAlpha == 2
\* Largest component of an input vector.
MaxInput == 1
\* Training runs of the model.
MaxTrainRuns == 2

(***************************************************************************)
(* Tensors: a vector is a sequence of integers, a matrix a sequence of     *)
(* rows.  Layers are square of side 2 (768 in DistilBERT).                 *)
(***************************************************************************)
Idx == {1, 2}

Vectors(n, vals) == [1..n -> vals]

Matrices(r, c, vals) == [1..r -> [1..c -> vals]]

Rows(M) == Len(M)

Cols(M) == IF Len(M) = 0 THEN 0 ELSE Len(M[1])

Shape(M) == <<Rows(M), Cols(M)>>

RECURSIVE SumTo(_, _)
SumTo(f, n) == IF n = 0 THEN 0 ELSE f[n] + SumTo(f, n - 1)

\* Number of elements of a tensor (torch.Tensor.numel).
NumelVec(v) == Len(v)

NumelMat(M) == Rows(M) * Cols(M)

\* x @ M for a row vector x and a (len(x) x c) matrix M.
VecMat(x, M) == [j \in 1..Cols(M) |-> SumTo([i \in 1..Len(x) |-> x[i] * M[i][j]], Len(x))]

VecAdd(u, v) == [j \in 1..Len(u) |-> u[j] + v[j]]

Transpose(M) == [j \in 1..Cols(M) |-> [i \in 1..Rows(M) |-> M[i][j]]]

\* nn.Linear.forward: x @ weight^T + bias (weight is out_features x in_features).
LinearForward(layer, x) == VecAdd(VecMat(x, Transpose(layer.weight)), layer.bias)

(***************************************************************************)
(* The model: DistilBERT's named linear submodules.  A dotted path is the  *)
(* pair (block, attribute name); block 0 is the top level of the model.    *)
(***************************************************************************)
Blocks == 1..NumBlocks

QueryPath(b) == [block |-> b, name |-> "q_lin"]

ValuePath(b) == [block |-> b, name |-> "v_lin"]

PreClassifierPath == [block |-> 0, name |-> "pre_classifier"]

ClassifierPath == [block |-> 0, name |-> "classifier"]

TargetPaths == {QueryPath(b) : b \in Blocks} \cup {ValuePath(b) : b \in Blocks}

HeadPaths == {PreClassifierPath, ClassifierPath}

Paths == TargetPaths \cup HeadPaths

NumPaths == 2 * NumBlocks + 2

\* The order in which the forward pass visits the submodules.
PathAt(i) ==
    IF i <= 2 * NumBlocks
    THEN (IF i % 2 = 1 THEN QueryPath((i + 1) \div 2) ELSE ValuePath(i \div 2))
    ELSE (IF i = 2 * NumBlocks + 1 THEN PreClassifierPath ELSE ClassifierPath)

\* A submodule slot that holds no layer (Python None).
NoLayer == 0

\* The layer object from_pretrained creates for the i-th submodule; every
\* parameter of a freshly loaded model is trainable.
PretrainedLayer(i) ==
    [weight |-> <<<<i, 1>>, <<0, 1>>>>,
     bias |-> <<i, 0>>,
     weight_requires_grad |-> TRUE,
     bias_requires_grad |-> TRUE]

PretrainedLayers == [i \in 1..NumPaths |-> PretrainedLayer(i)]

PretrainedModules == [p \in Paths |-> CHOOSE i \in 1..NumPaths : PathAt(i) = p]

Inputs == Vectors(2, 0..MaxInput)

\* The model's forward pass through its linear submodules, in order; calling
\* a slot that holds None raises.
RECURSIVE ForwardFrom(_, _, _, _)
ForwardFrom(mods, lyrs, i, x) ==
    IF i > NumPaths THEN [ok |-> TRUE, value |-> x]
    ELSE IF mods[PathAt(i)] = NoLayer THEN [ok |-> FALSE, value |-> <<>>]
    ELSE ForwardFrom(mods, lyrs, i + 1, LinearForward(lyrs[mods[PathAt(i)]], x))

ModelForward(mods, lyrs, x) == ForwardFrom(mods, lyrs, 1, x)

(***************************************************************************)
(* Call results.                                                           *)
(***************************************************************************)
Ret(v) == [kind |-> "return", value |-> v]

Raise(e) == [kind |-> "raise", error |-> e]

\* Reference to the model object passed to a function.
ModelRef == "model"

EmptyDict == [p \in {} |-> NoLayer]

NoCall == [op |-> "none"]

NotExtracted == [set |-> FALSE]

NoAdapter == [constructed |-> FALSE]

(***************************************************************************)
(* num_trainable_parameters(model)                                         *)
(***************************************************************************)
\* A bug that counts every parameter, trainable or not.
num_trainable_parameters_all(mods, lyrs) ==
    SumTo([i \in 1..NumPaths |->
              NumelMat(lyrs[mods[PathAt(i)]].weight) + NumelVec(lyrs[mods[PathAt(i)]].bias)],
          NumPaths)

num_trainable_parameters(mods, lyrs) == 0

CallNumTrainableParameters ==
    /\ last' = [op |-> "num_trainable_parameters",
                before |-> [modules |-> modules, layers |-> layers],
                result |-> Ret(num_trainable_parameters(modules, layers))]
    /\ UNCHANGED <<layers, modules, extracted, adapter, train_runs>>

(***************************************************************************)
(* extract(model)                                                          *)
(***************************************************************************)
extract(mods) == EmptyDict

\* A bug that takes the layers out of the model: the query and value slots
\* are left empty after the call.
CallExtract_detaches ==
    /\ modules' = [p \in Paths |-> IF p \in TargetPaths THEN NoLayer ELSE modules[p]]
    /\ extracted' = [set |-> TRUE, mapping |-> extract(modules),
                     modules |-> modules, layers |-> layers,
                     others_supplied |-> FALSE]
    /\ last' = [op |-> "extract",
                before |-> [modules |-> modules, layers |-> layers],
                result |-> Ret(extract(modules))]
    /\ UNCHANGED <<layers, adapter, train_runs>>

CallExtract ==
    /\ extracted' = [set |-> TRUE, mapping |-> extract(modules),
                     modules |-> modules, layers |-> layers,
                     others_supplied |-> FALSE]
    /\ last' = [op |-> "extract",
                before |-> [modules |-> modules, layers |-> layers],
                result |-> Ret(extract(modules))]
    /\ UNCHANGED <<layers, modules, adapter, train_runs>>

(***************************************************************************)
(* replace(model, named_layers)                                            *)
(***************************************************************************)
\* A bug that sets every target path from named_layers.get(name), leaving
\* None where the mapping has no entry.
replace_clearsMissing(mods, named_layers) ==
    [p \in Paths |->
        IF p \in DOMAIN named_layers THEN named_layers[p]
        ELSE IF p \in TargetPaths THEN NoLayer
        ELSE mods[p]]

\* A bug that addresses submodules by attribute name only, so that an entry
\* for one block's layer overwrites the same-named layer of every block.
replace_byLeafName(mods, named_layers) ==
    [p \in Paths |->
        IF \E k \in DOMAIN named_layers : k.name = p.name
        THEN named_layers[CHOOSE k \in DOMAIN named_layers : k.name = p.name]
        ELSE mods[p]]

\* The submodule table of the model that replace returns: the body is
\* "return model", nothing is set.
replace(mods, named_layers) == mods

\* Layer objects made by clone_linear.
CloneIds == {i \in DOMAIN layers : i > NumPaths}

\* What a caller supplies for a path: the layer held there (choice 0) or a
\* clone.
Supplied(p, c) == IF c = 0 THEN modules[p] ELSE c

\* Key sets of the named_layers arguments: none, one path, the query and
\* value paths of one block.
KeySets ==
    {{}} \cup {{p} : p \in Paths} \cup {{QueryPath(b), ValuePath(b)} : b \in Blocks}

\* A dotted path that names no submodule of the model.
AbsentPath == [block |-> 0, name |-> "no_such_layer"]

\* The named_layers arguments: the key sets above with every choice of
\* supplied layers, the mapping of every query and value path to the layer
\* the model holds there, and a layer for a path the model does not have.
NamedLayerArgs ==
    UNION {{[p \in S |-> Supplied(p, c[p])] : c \in [S -> {0} \cup CloneIds]} : S \in KeySets}
        \cup {[p \in TargetPaths |-> modules[p]]}
        \cup {[p \in {AbsentPath} |-> l] : l \in DOMAIN layers}

ReplaceWith(named_layers) ==
    /\ modules' = replace(modules, named_layers)
    /\ last' = [op |-> "replace",
                named_layers |-> named_layers,
                before |-> [modules |-> modules, layers |-> layers],
                result |-> Ret(ModelRef)]
    \* History: a replace call since the last extract supplied another layer
    \* than the one held at some path.
    /\ extracted' =
           IF extracted.set
                /\ \E p \in DOMAIN named_layers : p \notin Paths \/ named_layers[p] # modules[p]
           THEN [extracted EXCEPT !.others_supplied = TRUE]
           ELSE extracted
    /\ UNCHANGED <<layers, adapter, train_runs>>

CallReplace ==
    \E named_layers \in NamedLayerArgs \cup
            (IF extracted.set THEN {extracted.mapping} ELSE {}) :
        ReplaceWith(named_layers)

(***************************************************************************)
(* clone_linear(original)                                                  *)
(***************************************************************************)
\* nn.Linear(in_features, out_features) followed by load_state_dict: a new
\* layer object with the original's weight and bias values, trainable.
\* A bug that leaves out load_state_dict: the new layer keeps the values
\* nn.Linear initialised it with.
clone_linear_fresh(original) ==
    [weight |-> [i \in 1..Rows(original.weight) |-> [j \in 1..Cols(original.weight) |-> 0]],
     bias |-> [j \in 1..Len(original.bias) |-> 0],
     weight_requires_grad |-> TRUE,
     bias_requires_grad |-> TRUE]

clone_linear(original) ==
    [weight |-> original.weight,
     bias |-> original.bias,
     weight_requires_grad |-> TRUE,
     bias_requires_grad |-> TRUE]

CallCloneLinear ==
    /\ Len(layers) < NumPaths + MaxClones
    /\ \E o \in DOMAIN layers :
          /\ layers' = Append(layers, clone_linear(layers[o]))
          /\ last' = [op |-> "clone_linear",
                      original |-> o,
                      before |-> [modules |-> modules, layers |-> layers],
                      result |-> Ret(Len(layers) + 1)]
    /\ UNCHANGED <<modules, extracted, adapter, train_runs>>

(***************************************************************************)
(* Training: make_trainer(model).train(), train(model) and the full        *)
(* fine-tuning cell.                                                       *)
(***************************************************************************)
\* One training run's update of a tensor: every element moves.
StepVec(v) == [j \in 1..Len(v) |-> v[j] + 1]

StepMat(M) == [i \in 1..Rows(M) |-> StepVec(M[i])]

\* Trainer.train() on a trainer made for the model: the parameters of the
\* model's submodules that require gradients are updated in place.
Trainer_train(mods, lyrs) ==
    [i \in DOMAIN lyrs |->
        IF \E p \in Paths : mods[p] = i
        THEN [lyrs[i] EXCEPT
                 !.weight = IF lyrs[i].weight_requires_grad THEN StepMat(@) ELSE @,
                 !.bias = IF lyrs[i].bias_requires_grad THEN StepVec(@) ELSE @]
        ELSE lyrs[i]]

\* A bug that trains a copy: the object passed in keeps its parameters and
\* another object is returned.
train_onCopy(mods, lyrs) ==
    [printed |-> num_trainable_parameters(mods, lyrs),
     layers |-> lyrs,
     result |-> Ret("copy")]

\* train(model): prints the parameter count, trains, returns model.
train(mods, lyrs) ==
    [printed |-> num_trainable_parameters(mods, lyrs),
     layers |-> Trainer_train(mods, lyrs),
     result |-> Ret(ModelRef)]

CallTrain ==
    /\ train_runs < MaxTrainRuns
    /\ layers' = train(modules, layers).layers
    /\ train_runs' = train_runs + 1
    /\ last' = [op |-> "train",
                before |-> [modules |-> modules, layers |-> layers],
                printed |-> train(modules, layers).printed,
                result |-> train(modules, layers).result]
    /\ UNCHANGED <<modules, extracted, adapter>>

\* The full fine-tuning cell: make_trainer(pretrained_model).train().
FineTuneCell ==
    /\ train_runs < MaxTrainRuns
    /\ layers' = Trainer_train(modules, layers)
    /\ train_runs' = train_runs + 1
    /\ last' = [op |-> "finetune",
                before |-> [modules |-> modules, layers |-> layers],
                result |-> Ret("TrainOutput")]
    /\ UNCHANGED <<modules, extracted, adapter>>

(***************************************************************************)
(* make_headtuned_model()                                                  *)
(***************************************************************************)
\* The body is "raise NotImplementedError".
make_headtuned_model == Raise("NotImplementedError")

CallMakeHeadtunedModel ==
    /\ last' = [op |-> "make_headtuned_model",
                before |-> [modules |-> modules, layers |-> layers],
                result |-> make_headtuned_model]
    /\ UNCHANGED <<layers, modules, extracted, adapter, train_runs>>

(***************************************************************************)
(* Specification of the layer-surgery cells.                               *)
(***************************************************************************)
Init ==
    /\ layers = PretrainedLayers
    /\ modules = PretrainedModules
    /\ extracted = NotExtracted
    /\ adapter = NoAdapter
    /\ train_runs = 0
    /\ last = NoCall

Next ==
    \/ CallNumTrainableParameters
    \/ CallExtract
    \/ CallReplace
    \/ CallCloneLinear
    \/ CallMakeHeadtunedModel

Spec == Init /\ [][Next]_vars

(***************************************************************************)
(* Specification of the training cells, with cloning.                      *)
(***************************************************************************)
NextTrain ==
    \/ CallTrain
    \/ FineTuneCell
    \/ CallCloneLinear
    \/ CallNumTrainableParameters
    \/ CallExtract

SpecTrain == Init /\ [][NextTrain]_vars

(***************************************************************************)
(* Parameter counting over every assignment of requires_grad flags.        *)
(***************************************************************************)
WithFlags(wf, bf) ==
    [i \in 1..NumPaths |->
        [PretrainedLayer(i) EXCEPT !.weight_requires_grad = (i \in wf),
                                   !.bias_requires_grad = (i \in bf)]]

InitParams ==
    /\ layers \in {WithFlags(wf, bf) : wf \in SUBSET (1..NumPaths), bf \in SUBSET (1..NumPaths)}
    /\ modules = PretrainedModules
    /\ extracted = NotExtracted
    /\ adapter = NoAdapter
    /\ train_runs = 0
    /\ last = NoCall

NextParams == CallNumTrainableParameters

SpecParams == InitParams /\ [][NextParams]_vars

(***************************************************************************)
(* approximate(matrix, rank)                                               *)
(***************************************************************************)
\* A bug that truncates the matrix itself (keeps its first rank columns)
\* instead of its singular value decomposition.
approximate_firstColumns(matrix, rank) ==
    [i \in 1..Rows(matrix) |->
        [j \in 1..Cols(matrix) |-> IF j <= rank THEN matrix[i][j] ELSE 0]]

\* A bug that slices from the wrong end: drops the leading rank columns
\* instead of keeping them.
approximate_dropsLeading(matrix, rank) ==
    [i \in 1..Rows(matrix) |->
        [j \in 1..Cols(matrix) |-> IF j <= rank THEN 0 ELSE matrix[i][j]]]

\* A bug that truncates the rows of the matrix itself.
approximate_firstRows(matrix, rank) ==
    [i \in 1..Rows(matrix) |->
        [j \in 1..Cols(matrix) |-> IF i <= rank THEN matrix[i][j] ELSE 0]]

approximate(matrix, rank) == matrix

\* torch.dist(a, b), squared: the sum of the squared differences.
DistSquared(a, b) ==
    SumTo([i \in 1..Rows(a) |->
              SumTo([j \in 1..Cols(a) |-> (a[i][j] - b[i][j]) * (a[i][j] - b[i][j])], Cols(a))],
          Rows(a))

\* The rank of a matrix with at most two rows or at most two columns.
Rank(M) ==
    IF \A i \in 1..Rows(M), j \in 1..Cols(M) : M[i][j] = 0 THEN 0
    ELSE IF \E i, k \in 1..Rows(M), j, l \in 1..Cols(M) :
                /\ i < k
                /\ j < l
                /\ M[i][j] * M[k][l] - M[i][l] * M[k][j] # 0
         THEN 2
         ELSE 1

MatrixArgs == UNION {Matrices(r, c, 0..MaxEntry) : r \in Idx, c \in Idx}

CallApproximate ==
    /\ \E matrix \in MatrixArgs, rank \in 1..MaxRank :
          last' = [op |-> "approximate",
                   matrix |-> matrix,
                   rank |-> rank,
                   result |-> Ret(approximate(matrix, rank))]
    /\ UNCHANGED <<layers, modules, extracted, adapter, train_runs>>

SpecApprox == Init /\ [][CallApproximate]_vars

(***************************************************************************)
(* class LoRA                                                              *)
(***************************************************************************)
DefaultRank == 12

DefaultAlpha == 24

\* A rank for which no matrices A (in_features x rank) and B (rank x
\* out_features) exist.
InvalidRank == 0 - 1

RankArgs == (1..MaxRank) \cup {DefaultRank, InvalidRank}

AlphaArgs == (1..MaxAlpha) \cup {DefaultAlpha}

\* The attributes __init__ sets on the new module: super().__init__() and
\* nothing else, so neither pretrained, A, B, rank nor alpha is stored.
LoRA__init__(pretrained, rank, alpha) == [n \in {} |-> 0]

\* forward(self, x): the body is "raise NotImplementedError".
LoRA_forward(self, x) == Raise("NotImplementedError")

NewLoRA ==
    /\ \E pretrained \in DOMAIN layers, rank \in RankArgs, alpha \in AlphaArgs :
          /\ adapter' = [constructed |-> TRUE,
                         attrs |-> LoRA__init__(pretrained, rank, alpha),
                         args |-> [pretrained |-> pretrained, rank |-> rank, alpha |-> alpha]]
          /\ last' = [op |-> "LoRA",
                      args |-> [pretrained |-> pretrained, rank |-> rank, alpha |-> alpha],
                      result |-> Ret("adapter")]
    /\ UNCHANGED <<layers, modules, extracted, train_runs>>

CallForward ==
    /\ adapter.constructed
    /\ \E x \in Inputs :
          last' = [op |-> "forward",
                   x |-> x,
                   adapter |-> adapter,
                   result |-> LoRA_forward(adapter.attrs, x)]
    /\ UNCHANGED <<layers, modules, extracted, adapter, train_runs>>

(***************************************************************************)
(* make_lora_model(rank)                                                   *)
(***************************************************************************)
\* The body is "raise NotImplementedError".
make_lora_model(rank) == Raise("NotImplementedError")

CallMakeLoraModel ==
    /\ \E rank \in 1..MaxRank :
          last' = [op |-> "make_lora_model",
                   rank |-> rank,
                   before |-> [modules |-> modules, layers |-> layers],
                   result |-> make_lora_model(rank)]
    /\ UNCHANGED <<layers, modules, extracted, adapter, train_runs>>

NextLoRA ==
    \/ NewLoRA
    \/ CallForward
    \/ CallMakeLoraModel
    \/ CallTrain

SpecLoRA == Init /\ [][NextLoRA]_vars

\* (alpha / rank) * v, in integers.
Scale(alpha, rank, v) == [j \in 1..Len(v) |-> (alpha * v[j]) \div rank]

\* x W0 + (alpha / rank) (x A B), with the frozen layer applied as a layer.
LoRAEquation(x, pretrained, A, B, rank, alpha) ==
    VecAdd(LinearForward(pretrained, x), Scale(alpha, rank, VecMat(VecMat(x, A), B)))

(***************************************************************************)
(* Properties.                                                             *)
(***************************************************************************)

\* C1: LoRA.forward(x) returns x W0 + (alpha / rank) (x A B), where W0 is the
\* wrapped layer, A and B the adapter's matrices, rank and alpha its
\* hyperparameters.
C1_ForwardEquation ==
    last.op = "forward" =>
        LET ad == last.adapter IN
        /\ last.result.kind = "return"
        /\ {"A", "B"} \subseteq DOMAIN ad.attrs
        /\ last.result.value =
               LoRAEquation(last.x, layers[ad.args.pretrained], ad.attrs["A"], ad.attrs["B"],
                            ad.args.rank, ad.args.alpha)

\* C2: forward(x) of a freshly constructed adapter (no training step taken)
\* returns exactly what the wrapped frozen layer returns for x, for every
\* rank and alpha.
C2_FreshAdapterIsFrozenMap ==
    (last.op = "forward" /\ train_runs = 0) =>
        last.result = Ret(LinearForward(layers[last.adapter.args.pretrained], last.x))

SameBehaviour(m1, l1, m2, l2) ==
    \A x \in Inputs : ModelForward(m1, l1, x) = ModelForward(m2, l2, x)

\* The call just made is replace(model, m) with m the mapping extract
\* returned, and since that extract only extracted paths were given other
\* layers.
RoundTripCompleted ==
    /\ extracted.set
    /\ last.op = "replace"
    /\ last.named_layers = extracted.mapping
    /\ {p \in Paths : last.before.modules[p] # extracted.modules[p]}
           \subseteq DOMAIN extracted.mapping
    \* no training run updated the parameters in between
    /\ \A i \in DOMAIN extracted.layers : layers[i] = extracted.layers[i]

C4_ReplaceInstalls ==
    last.op = "replace" =>
        /\ \A p \in DOMAIN last.named_layers \cap Paths : modules[p] = last.named_layers[p]
        /\ last.result = Ret(ModelRef)

\* C5: replace(model, named_layers) leaves every submodule whose path is not
\* a key of named_layers the same object with the same parameters.
C5_ReplaceFrame ==
    last.op = "replace" =>
        \A p \in Paths \ DOMAIN last.named_layers :
            /\ modules[p] = last.before.modules[p]
            /\ modules[p] # NoLayer => layers[modules[p]] = last.before.layers[modules[p]]

C5_Witness ==
    /\ last.op = "replace"
    /\ \E p \in DOMAIN last.named_layers \cap Paths :
           last.named_layers[p] # last.before.modules[p]
    /\ \E p \in Paths \ DOMAIN last.named_layers : modules[p] = last.before.modules[p]

\* C6: extract(model) returns a mapping whose keys are exactly the query and
\* value paths of every block (2 * NumBlocks entries) and whose values are
\* the layer objects the model holds at those paths.
C6_ExtractTargets ==
    last.op = "extract" =>
        /\ last.result.kind = "return"
        /\ DOMAIN last.result.value = TargetPaths
        /\ Cardinality(DOMAIN last.result.value) = 2 * NumBlocks
        /\ \A p \in DOMAIN last.result.value :
               last.result.value[p] = last.before.modules[p]

\* Sum of the element counts of the parameters marked trainable.
TrainableElements(mods, lyrs) ==
    SumTo([i \in 1..NumPaths |->
              (IF lyrs[mods[PathAt(i)]].weight_requires_grad
               THEN NumelMat(lyrs[mods[PathAt(i)]].weight) ELSE 0)
              + (IF lyrs[mods[PathAt(i)]].bias_requires_grad
                 THEN NumelVec(lyrs[mods[PathAt(i)]].bias) ELSE 0)],
          NumPaths)

AllFrozen(mods, lyrs) ==
    \A p \in Paths :
        /\ ~lyrs[mods[p]].weight_requires_grad
        /\ ~lyrs[mods[p]].bias_requires_grad

\* C7: num_trainable_parameters(model) returns the sum of the element counts
\* of exactly the parameters marked trainable.
C7_CountsTrainableElements ==
    last.op = "num_trainable_parameters" =>
        last.result = Ret(TrainableElements(last.before.modules, last.before.layers))

\* C8: for a model all of whose parameters are frozen,
\* num_trainable_parameters(model) returns 0.
C8_AllFrozenCountsZero ==
    (last.op = "num_trainable_parameters"
        /\ AllFrozen(last.before.modules, last.before.layers)) =>
        last.result = Ret(0)

C8_Witness ==
    /\ last.op = "num_trainable_parameters"
    /\ AllFrozen(modules, layers)
    /\ last.result = Ret(0)

\* C9: for a matrix of rank at most r, approximate(matrix, r) is at distance
\* zero from the matrix.
C9_ReconstructsLowRank ==
    (last.op = "approximate" /\ Rank(last.matrix) <= last.rank) =>
        /\ last.result.kind = "return"
        /\ Shape(last.result.value) = Shape(last.matrix)
        /\ DistSquared(last.matrix, last.result.value) = 0

C9_Witness ==
    /\ last.op = "approximate"
    /\ Rank(last.matrix) = 1
    /\ last.rank = 1
    /\ Shape(last.matrix) = <<2, 2>>
    /\ last.matrix[1][2] # 0
    /\ DistSquared(last.matrix, last.result.value) = 0

\* C10: approximate(matrix, r) returns a matrix of the shape of its input
\* and of rank at most r.
C10_ResultHasRankAtMostR ==
    last.op = "approximate" =>
        /\ last.result.kind = "return"
        /\ Shape(last.result.value) = Shape(last.matrix)
        /\ Rank(last.result.value) <= last.rank

\* C11: for a fixed matrix the distance between the matrix and
\* approximate(matrix, r) does not increase as r increases: the error at the
\* rank just requested is at most the error at every smaller rank.
C11_ErrorNonIncreasing ==
    last.op = "approximate" =>
        \A r \in 1..last.rank :
            DistSquared(last.matrix, last.result.value)
                <= DistSquared(last.matrix, approximate(last.matrix, r))

C11_Witness ==
    /\ last.op = "approximate"
    /\ last.rank > 1
    /\ Rank(last.matrix) = 2
    /\ DistSquared(last.matrix, last.result.value) = 0

\* The largest rank a matrix of this shape can have.
MaxPossibleRank(M) == IF Rows(M) <= Cols(M) THEN Rows(M) ELSE Cols(M)

C12_AbsentPathIsLookupError ==
    /\ (last.op = "replace" /\ ~(DOMAIN last.named_layers \subseteq DOMAIN last.before.modules)) =>
           /\ last.result.kind = "raise"
           /\ DOMAIN modules = DOMAIN last.before.modules
    /\ (last.op = "extract" /\ ~(TargetPaths \subseteq DOMAIN last.before.modules)) =>
           last.result.kind = "raise"

\* Element count of the head layers' parameters in the pre-trained model.
HeadElements ==
    SumTo([i \in 1..NumPaths |->
              IF PathAt(i) \in HeadPaths
              THEN NumelMat(PretrainedLayer(i).weight) + NumelVec(PretrainedLayer(i).bias)
              ELSE 0],
          NumPaths)

\* C17: make_headtuned_model() returns a model whose parameters outside the
\* head layers have the values of the pre-trained model and whose trainable
\* parameters are exactly those of the head layers.
C17_HeadTunedModel ==
    last.op = "make_headtuned_model" =>
        /\ last.result.kind = "return"
        /\ LET m == last.result.value IN
           /\ \A p \in Paths \ HeadPaths :
                  /\ m.layers[m.modules[p]].weight = PretrainedLayers[PretrainedModules[p]].weight
                  /\ m.layers[m.modules[p]].bias = PretrainedLayers[PretrainedModules[p]].bias
           /\ \A p \in Paths :
                  /\ m.layers[m.modules[p]].weight_requires_grad = (p \in HeadPaths)
                  /\ m.layers[m.modules[p]].bias_requires_grad = (p \in HeadPaths)
           /\ TrainableElements(m.modules, m.layers) = HeadElements

\* C18: num_trainable_parameters(model) and extract(model) leave the model
\* as it was: every submodule slot holds the same layer, and every layer has
\* the same parameter values and requires_grad flags.
C18_ReadOnlyOperations ==
    last.op \in {"num_trainable_parameters", "extract"} =>
        /\ modules = last.before.modules
        /\ layers = last.before.layers

C18_Witness ==
    /\ last.op = "extract"
    /\ extracted.set
    /\ CloneIds # {}
    /\ modules = last.before.modules
    /\ layers = last.before.layers

\* The state right after clone_linear(original): the result is a new layer
\* object, of the original's shape and with its weight and bias values, and
\* the original is as it was.
CloneIsFaithful ==
    last.op = "clone_linear" =>
        LET c == last.result.value
            o == last.original
        IN  /\ c \notin DOMAIN last.before.layers
            /\ c \in DOMAIN layers
            /\ c # o
            /\ Shape(layers[c].weight) = Shape(last.before.layers[o].weight)
            /\ layers[c].weight = last.before.layers[o].weight
            /\ layers[c].bias = last.before.layers[o].bias
            /\ layers[o] = last.before.layers[o]

\* A step that changes a layer object changes no other layer object that was
\* cloned from it or that it was cloned from: clones keep their parameters
\* when the model's layers are trained.
ClonesIndependent ==
    \A c \in CloneIds : c \in DOMAIN layers' /\ layers'[c] = layers[c]

C20_TrainsInPlace ==
    /\ last.op = "train" => last.result = Ret(ModelRef)
    /\ last.op \in {"train", "finetune"} =>
           \A p \in Paths :
               /\ last.before.layers[modules[p]].weight_requires_grad =>
                      layers[modules[p]].weight # last.before.layers[modules[p]].weight
               /\ last.before.layers[modules[p]].bias_requires_grad =>
                      layers[modules[p]].bias # last.before.layers[modules[p]].bias

C20_Witness ==
    /\ last.op = "train"
    /\ last.result = Ret(ModelRef)
    /\ layers[modules[ClassifierPath]].weight
           # last.before.layers[modules[ClassifierPath]].weight

\* Matrices A (in_features x rank) and B (rank x out_features) that compose
\* with the wrapped layer exist only for a rank that is not negative.
Conformable(args) == args.rank >= 0

\* C14: constructing a LoRA adapter whose matrices cannot conform with the
\* wrapped layer raises a dimension-mismatch error in __init__, so no forward
\* call is ever made on such an adapter.
C14_MismatchRejectedAtConstruction ==
    /\ (last.op = "LoRA" /\ ~Conformable(last.args)) => last.result.kind = "raise"
    /\ last.op = "forward" => Conformable(last.adapter.args)

\* C15: once an adapter wraps a layer, no step changes that layer's weight
\* and bias (W0), nor the adapter's rank and alpha.
C15_WrappedLayerFrozen ==
    [][(adapter.constructed /\ adapter' = adapter) =>
           /\ layers'[adapter.args.pretrained].weight = layers[adapter.args.pretrained].weight
           /\ layers'[adapter.args.pretrained].bias = layers[adapter.args.pretrained].bias]_vars

\* C16: make_lora_model(rank) returns a model in which every query and value
\* layer, and no other layer, is a LoRA adapter of the given rank and of
\* alpha twice the rank.
C16_LoraModel ==
    last.op = "make_lora_model" =>
        /\ last.result.kind = "return"
        /\ LET m == last.result.value IN
           /\ \A p \in TargetPaths :
                  /\ m.adapters[p].constructed
                  /\ m.adapters[p].args.rank = last.rank
                  /\ m.adapters[p].args.alpha = 2 * last.rank
           /\ \A p \in Paths \ TargetPaths : ~m.adapters[p].constructed

====
